---- MODULE Spec2Model ----
(***************************************************************************)
(* Model of the PROS kernel's competition daemon (system_daemon.c), the    *)
(* hot/cold reload table installer (hot.c) and the device-port mutex use   *)
(* of the drivers (vdml_imu.c).                                            *)
(*                                                                         *)
(* Two specifications are defined:                                         *)
(*   SpecHot  repeated install attempts of the reload table, for every     *)
(*            sentinel, memory layout and memory content within bounds;    *)
(*   Spec     one boot: install attempt, static constructor               *)
(*            setup_user_functions, then the daemon task, the mode task    *)
(*            in its slot and the external competition status.             *)
(***************************************************************************)
EXTENDS Integers, Sequences, FiniteSets, TLC

VARIABLES
    \* ---- hot.c ----
    MAGIC_ADDR,          \* the two words at the sentinel location
    HOT_TABLE,           \* the reload table (struct hot_table)
    hotMem,              \* the hot binary's uninitialized-data bytes, by address
    syms,                \* __sbss_start, __sbss_end, __bss_start, __bss_end
    callLog,             \* steps performed by the last invoke_install_hot_table
    initSaw,             \* memory as __libc_init_array found it in the last call
    \* ---- system_daemon.c: resolution layer ----
    user_initialize,
    user_cpp_initialize,
    \* ---- system_daemon.c: daemon task ----
    pc,                  \* position of _system_daemon_task
    bgpc,                \* position inside do_background_operations
    status,              \* local: status snapshot
    old_status,          \* local: previous snapshot
    state,               \* local: enum state_task chosen
    competition_task,    \* the task the handle competition_task refers to
    liveCount,           \* number of live tasks using the competition stack
    notified,            \* pending notification of the daemon task
    \* ---- environment ----
    compStatus,          \* what competition_get_status() returns right now
    mutexOwner,          \* owner of the device port mutexes
    schedSuspended,      \* rtos_suspend_all in effect
    \* ---- history ----
    ticks,               \* steady-state wake-ups (entry into the loop included)
    services,            \* steady-state do_background_operations completed
    nCreate,             \* task_create_static calls on the competition slot
    nDelete              \* task_delete calls on the competition slot

hotVars    == <<MAGIC_ADDR, HOT_TABLE, hotMem, syms, callLog, initSaw>>
bindVars   == <<user_initialize, user_cpp_initialize>>
daemonVars == <<pc, bgpc, status, old_status, state, competition_task,
                liveCount, notified>>
envVars    == <<compStatus, mutexOwner, schedSuspended>>
histVars   == <<ticks, services, nCreate, nDelete>>
vars       == <<hotVars, bindVars, daemonVars, envVars, histVars>>

----------------------------------------------------------------------------
(* Bounds                                                                  *)

MaxRegionLen == 2        \* longest sbss / bss region explored
MaxTicks     == 3        \* steady-state wake-ups explored

----------------------------------------------------------------------------
(* hot.c                                                                   *)

\* 32-bit words are kept as <<high half, low half>>
MAGIC0 == <<21089, 25448>>     \* 0x5261 0x6368
MAGIC1 == <<36079, 29456>>     \* 0x8CEF 0x7310
OtherWord == <<0, 0>>
NearWord  == <<21089, 29456>>  \* shares one half with each magic word

Words == {MAGIC0, MAGIC1, OtherWord, NearWord}

NULL == <<"null", "null">>
HotSym(F)  == <<"hot", F>>     \* address of symbol F as linked in the hot binary
ColdSym(F) == <<"cold", F>>    \* address of symbol F as linked in the cold binary

\* system/user_functions/list.h: the FUNC(...) list
FuncList == {"initialize", "autonomous", "opcontrol", "disabled",
             "competition_initialize", "cpp_initialize"}

\* struct hot_table __HOT_TABLE = { 0 };
ZeroTable == [compile_timestamp |-> NULL,
              compile_directory |-> NULL,
              functions         |-> [F \in FuncList |-> NULL]]

\* memset(p, 0, n) on the hot binary's memory
memset(mem, p, n) ==
    [a \in DOMAIN mem |-> IF p <= a /\ a < p + n THEN 0 ELSE mem[a]]

InstallSteps == <<"metadata", "callbacks", "zero_sbss", "zero_bss", "init_array">>

\* install_hot_table with the compile_directory assignment and one FUNC line lost
install_hot_table_mut(tbl, mem, sy) ==
    LET t1 == [tbl EXCEPT !.compile_timestamp = HotSym("_PROS_COMPILE_TIMESTAMP")]
        t2 == [t1 EXCEPT !.functions =
                 [F \in FuncList |-> IF F = "competition_initialize"
                                     THEN tbl.functions[F] ELSE HotSym(F)]]
        m1 == memset(mem, sy.sbss_start, sy.sbss_end - sy.sbss_start)
        m2 == memset(m1, sy.bss_start, sy.bss_end - sy.bss_end)
    IN  [tbl |-> t2, mem |-> m2, log |-> InstallSteps, saw |-> m2]

\* void install_hot_table(struct hot_table* const tbl)
install_hot_table(tbl, mem, sy) ==
    LET t1 == [tbl EXCEPT !.compile_timestamp = HotSym("_PROS_COMPILE_TIMESTAMP"),
                          !.compile_directory = HotSym("_PROS_COMPILE_DIRECTORY")]
        t2 == [t1 EXCEPT !.functions = [F \in FuncList |-> HotSym(F)]]
        m1 == memset(mem, sy.sbss_start, sy.sbss_end - sy.sbss_start)
        m2 == memset(m1, sy.bss_start, sy.bss_end - sy.bss_end)
    IN  [tbl |-> t2, mem |-> m2, log |-> InstallSteps, saw |-> m2]

\* the sentinel test with only the first word compared
MagicMatches_mut(magic) == magic[1] = MAGIC0

\* the test of invoke_install_hot_table
MagicMatches(magic) == magic[1] = MAGIC0 /\ magic[2] = MAGIC1

\* void invoke_install_hot_table()
invoke_install_hot_table(magic, tbl, mem, sy) ==
    IF MagicMatches(magic)
    THEN install_hot_table(tbl, mem, sy)
    ELSE [tbl |-> ZeroTable, mem |-> mem, log |-> <<>>, saw |-> <<>>]

InstallCall ==
    LET r == invoke_install_hot_table(MAGIC_ADDR, HOT_TABLE, hotMem, syms)
    IN  /\ HOT_TABLE' = r.tbl
        /\ hotMem'    = r.mem
        /\ callLog'   = r.log
        /\ initSaw'   = r.saw
        /\ UNCHANGED <<MAGIC_ADDR, syms>>

\* the linker's placement of the two regions: sbss first, bss right after
Layout(s, b) == [sbss_start |-> 1, sbss_end |-> 1 + s,
                 bss_start  |-> 1 + s, bss_end |-> 1 + s + b]

Bytes == {0, 1}
MemOf(n) == [1..n -> Bytes]

----------------------------------------------------------------------------
(* Competition status bits (pros/misc.h) and bit operations                *)

COMPETITION_DISABLED   == 1
COMPETITION_AUTONOMOUS == 2
COMPETITION_CONNECTED  == 4

StatusValues == 0..7

\* uint32_t status = (uint32_t)(1 << 8);
InitialStatus == 256

RECURSIVE BitAnd(_, _)
BitAnd(a, b) ==
    IF a = 0 \/ b = 0 THEN 0
    ELSE (a % 2) * (b % 2) + 2 * BitAnd(a \div 2, b \div 2)

RECURSIVE BitXor(_, _)
BitXor(a, b) ==
    IF a = 0 /\ b = 0 THEN 0
    ELSE ((a + b) % 2) + 2 * BitXor(a \div 2, b \div 2)

BitOr(a, b) == a + b - BitAnd(a, b)

----------------------------------------------------------------------------
(* system_daemon.c: tables and the resolution layer                        *)

\* enum state_task
E_OPCONTROL_TASK == 0
E_AUTON_TASK     == 1
E_DISABLED_TASK  == 2
E_COMP_INIT_TASK == 3

\* task_fn_t task_fns[4], indexed by state (here from 1)
task_fns == <<"_opcontrol_task", "_autonomous_task", "_disabled_task",
              "_competition_initialize_task">>

\* static void setup_user_functions()
setup_user_functions(tbl) ==
    [user_initialize     |-> IF tbl.functions["initialize"] # NULL
                             THEN tbl.functions["initialize"]
                             ELSE ColdSym("initialize"),
     user_cpp_initialize |-> IF tbl.functions["cpp_initialize"] # NULL
                             THEN tbl.functions["cpp_initialize"]
                             ELSE ColdSym("cpp_initialize")]

\* the function each task entry point calls (_initialize_task ... _disabled_task)
Invokes(fn) ==
    CASE fn = "_initialize_task"             -> user_initialize
      [] fn = "_competition_initialize_task" -> ColdSym("competition_initialize")
      [] fn = "_autonomous_task"             -> ColdSym("autonomous")
      [] fn = "_opcontrol_task"              -> ColdSym("opcontrol")
      [] fn = "_disabled_task"               -> ColdSym("disabled")
      [] OTHER                               -> NULL

----------------------------------------------------------------------------
(* Tasks                                                                   *)

NoTask == [fn |-> "none", st |-> "INVALID", notifySent |-> FALSE]

\* task_create_static(fn, ...) on the competition stack and buffer
NewTask(fn) == [fn |-> fn, st |-> "READY", notifySent |-> FALSE]

\* task_get_state as seen by the daemon (never the task's own caller)
task_get_state(t) == t.st

IsLive(t) == t.st \in {"READY", "BLOCKED", "SUSPENDED"}

\* the deletion test lost: task_delete whatever the state
ShouldDelete_always(task_state) == task_state = task_state

\* the deletion test with the blocked and suspended cases lost
ShouldDelete_mut(task_state) == task_state = "READY"

\* the test guarding task_delete in _system_daemon_task
ShouldDelete(task_state) ==
    task_state = "READY" \/ task_state = "BLOCKED" \/ task_state = "SUSPENDED"

\* the chain with the test of the connected-bit change lost
ChooseState_noxor(st, old) ==
    IF BitAnd(st, BitOr(COMPETITION_DISABLED, COMPETITION_CONNECTED))
         = BitOr(COMPETITION_DISABLED, COMPETITION_CONNECTED)
    THEN E_COMP_INIT_TASK
    ELSE IF BitAnd(st, COMPETITION_DISABLED) # 0 THEN E_DISABLED_TASK
    ELSE IF BitAnd(st, COMPETITION_AUTONOMOUS) # 0 THEN E_AUTON_TASK
    ELSE E_OPCONTROL_TASK

\* the chain with the autonomous test ahead of the disabled test
ChooseState_mut(st, old) ==
    IF /\ BitAnd(BitXor(st, old), COMPETITION_CONNECTED) # 0
       /\ BitAnd(st, BitOr(COMPETITION_DISABLED, COMPETITION_CONNECTED))
            = BitOr(COMPETITION_DISABLED, COMPETITION_CONNECTED)
    THEN E_COMP_INIT_TASK
    ELSE IF BitAnd(st, COMPETITION_AUTONOMOUS) # 0 THEN E_AUTON_TASK
    ELSE IF BitAnd(st, COMPETITION_DISABLED) # 0 THEN E_DISABLED_TASK
    ELSE E_OPCONTROL_TASK

\* the chain choosing the next state in _system_daemon_task
ChooseState(st, old) ==
    IF /\ BitAnd(BitXor(st, old), COMPETITION_CONNECTED) # 0
       /\ BitAnd(st, BitOr(COMPETITION_DISABLED, COMPETITION_CONNECTED))
            = BitOr(COMPETITION_DISABLED, COMPETITION_CONNECTED)
    THEN E_COMP_INIT_TASK
    ELSE IF BitAnd(st, COMPETITION_DISABLED) # 0 THEN E_DISABLED_TASK
    ELSE IF BitAnd(st, COMPETITION_AUTONOMOUS) # 0 THEN E_AUTON_TASK
    ELSE E_OPCONTROL_TASK

\* the disabled-in-both test with `||` in place of `&&`
BothDisabled_either(st, old) ==
    BitAnd(st, COMPETITION_DISABLED) # 0 \/ BitAnd(old, COMPETITION_DISABLED) # 0

\* the disabled-in-both test that also wants the connected bit unchanged
BothDisabled_mut(st, old) ==
    /\ BitAnd(st, COMPETITION_DISABLED) # 0
    /\ BitAnd(old, COMPETITION_DISABLED) # 0
    /\ BitAnd(BitXor(st, old), COMPETITION_CONNECTED) = 0

\* the disabled-in-both test that leads to `continue`
BothDisabled(st, old) ==
    BitAnd(st, COMPETITION_DISABLED) # 0 /\ BitAnd(old, COMPETITION_DISABLED) # 0

InBg == pc \in {"boot_bg", "steady_bg"}

\* the daemon task is blocked in the kernel: lower-priority tasks may run
DaemonBlocked ==
    \/ pc = "boot_wait" /\ ~notified
    \/ pc = "sleep"
    \/ InBg /\ bgpc = "take" /\ mutexOwner # "none"

\* the mode task running whenever it is ready, as if the daemon's priority
\* were not above the mode task's
ModeRuns_mut == ~schedSuspended /\ competition_task.st = "READY"

\* the mode task runs: it is ready and the higher-priority daemon is blocked
ModeRuns == DaemonBlocked /\ competition_task.st = "READY"

----------------------------------------------------------------------------
(* Boot: install attempt, then the static constructor                      *)

\* invoke_install_hot_table() called once by the startup code
BootInstall ==
    /\ pc = "install"
    /\ InstallCall
    /\ pc' = "ctor"
    /\ UNCHANGED <<bindVars, bgpc, status, old_status, state, competition_task,
                   liveCount, notified, envVars, histVars>>

\* __attribute__((constructor (102))) setup_user_functions
SetupUserFunctions ==
    /\ pc = "ctor"
    /\ LET r == setup_user_functions(HOT_TABLE)
       IN  /\ user_initialize' = r.user_initialize
           /\ user_cpp_initialize' = r.user_cpp_initialize
    /\ pc' = "start"
    /\ UNCHANGED <<hotVars, bgpc, status, old_status, state, competition_task,
                   liveCount, notified, envVars, histVars>>

----------------------------------------------------------------------------
(* _system_daemon_task                                                     *)

\* the daemon's start with the snapshot initialised to no bit set
DaemonStart_mut ==
    /\ pc = "start"
    /\ mutexOwner = "none"
    /\ status' = InitialStatus - InitialStatus
    /\ pc' = "create_init"
    /\ UNCHANGED <<hotVars, bindVars, bgpc, old_status, state, competition_task,
                   liveCount, notified, envVars, histVars>>

\* locals initialised; port_mutex_take_all(); task_delay(2); port_mutex_give_all()
DaemonStart ==
    /\ pc = "start"
    /\ mutexOwner = "none"
    /\ status' = InitialStatus
    /\ pc' = "create_init"
    /\ UNCHANGED <<hotVars, bindVars, bgpc, old_status, state, competition_task,
                   liveCount, notified, envVars, histVars>>

\* competition_task = task_create_static(_initialize_task, ...)
CreateInitTask ==
    /\ pc = "create_init"
    /\ competition_task' = NewTask("_initialize_task")
    /\ liveCount' = liveCount + 1
    /\ nCreate' = nCreate + 1
    /\ pc' = "boot_wait"
    /\ UNCHANGED <<hotVars, bindVars, bgpc, status, old_status, state, notified,
                   envVars, ticks, services, nDelete>>

\* the bootstrap loop with its test inverted: a timed-out wait ends the loop
BootTimeout_mut ==
    /\ pc = "boot_wait"
    /\ ~notified
    /\ pc' = "steady_bg"
    /\ bgpc' = "take"
    /\ ticks' = ticks + 1
    /\ UNCHANGED <<hotVars, bindVars, status, old_status, state, competition_task,
                   liveCount, notified, envVars, services, nCreate, nDelete>>

\* while (!task_notify_take(true, 2)): the wait times out, the body runs
BootTimeout ==
    /\ pc = "boot_wait"
    /\ ~notified
    /\ pc' = "boot_bg"
    /\ bgpc' = "take"
    /\ UNCHANGED <<hotVars, bindVars, status, old_status, state, competition_task,
                   liveCount, notified, envVars, histVars>>

\* while (!task_notify_take(true, 2)): the notification is taken, the loop ends
BootNotified ==
    /\ pc = "boot_wait"
    /\ notified
    /\ notified' = FALSE
    /\ pc' = "steady_bg"
    /\ bgpc' = "take"
    /\ ticks' = ticks + 1
    /\ UNCHANGED <<hotVars, bindVars, status, old_status, state, competition_task,
                   liveCount, envVars, services, nCreate, nDelete>>

\* do_background_operations with the rtos_suspend_all() call lost
BgTake_mut ==
    /\ InBg /\ bgpc = "take"
    /\ mutexOwner = "none"
    /\ pc = "steady_bg" => services <= MaxTicks
    /\ mutexOwner' = "daemon"
    /\ schedSuspended' = FALSE
    /\ bgpc' = "vex"
    /\ UNCHANGED <<hotVars, bindVars, pc, status, old_status, state,
                   competition_task, liveCount, notified, compStatus, histVars>>

\* do_background_operations: port_mutex_take_all(); ser_output_flush();
\* rtos_suspend_all()
BgTake ==
    /\ InBg /\ bgpc = "take"
    /\ mutexOwner = "none"
    /\ pc = "steady_bg" => services <= MaxTicks
    /\ mutexOwner' = "daemon"
    /\ schedSuspended' = TRUE
    /\ bgpc' = "vex"
    /\ UNCHANGED <<hotVars, bindVars, pc, status, old_status, state,
                   competition_task, liveCount, notified, compStatus, histVars>>

\* do_background_operations with the rtos_resume_all() call lost
BgVex_mut ==
    /\ InBg /\ bgpc = "vex"
    /\ schedSuspended' = schedSuspended
    /\ bgpc' = "vdml"
    /\ UNCHANGED <<hotVars, bindVars, pc, status, old_status, state,
                   competition_task, liveCount, notified, compStatus, mutexOwner,
                   histVars>>

\* do_background_operations: vexBackgroundProcessing(); rtos_resume_all()
BgVex ==
    /\ InBg /\ bgpc = "vex"
    /\ schedSuspended' = FALSE
    /\ bgpc' = "vdml"
    /\ UNCHANGED <<hotVars, bindVars, pc, status, old_status, state,
                   competition_task, liveCount, notified, compStatus, mutexOwner,
                   histVars>>

\* do_background_operations with the port_mutex_give_all() call lost
BgVdmlGive_mut ==
    /\ InBg /\ bgpc = "vdml"
    /\ mutexOwner' = mutexOwner
    /\ bgpc' = "none"
    /\ IF pc = "boot_bg"
       THEN pc' = "boot_wait" /\ UNCHANGED services
       ELSE pc' = "read1" /\ services' = services + 1
    /\ UNCHANGED <<hotVars, bindVars, status, old_status, state, competition_task,
                   liveCount, notified, compStatus, schedSuspended, ticks, nCreate,
                   nDelete>>

\* do_background_operations: vdml_background_processing(); port_mutex_give_all()
BgVdmlGive ==
    /\ InBg /\ bgpc = "vdml"
    /\ mutexOwner' = "none"
    /\ bgpc' = "none"
    /\ IF pc = "boot_bg"
       THEN pc' = "boot_wait" /\ UNCHANGED services
       ELSE pc' = "read1" /\ services' = services + 1
    /\ UNCHANGED <<hotVars, bindVars, status, old_status, state, competition_task,
                   liveCount, notified, compStatus, schedSuspended, ticks, nCreate,
                   nDelete>>

\* if (unlikely(status != competition_get_status()))
Read1 ==
    /\ pc = "read1"
    /\ pc' = IF status # compStatus THEN "read2" ELSE "sleep"
    /\ UNCHANGED <<hotVars, bindVars, bgpc, status, old_status, state,
                   competition_task, liveCount, notified, envVars, histVars>>

\* the status check that switches only when the chosen task function differs
\* from the one of the task in the slot
Read2_mut ==
    /\ pc = "read2"
    /\ old_status' = status
    /\ status' = compStatus
    /\ IF BothDisabled(compStatus, status)
       THEN /\ state' = E_OPCONTROL_TASK
            /\ pc' = "steady_bg"
            /\ bgpc' = "take"
       ELSE /\ state' = ChooseState(compStatus, status)
            /\ pc' = IF task_fns[ChooseState(compStatus, status) + 1]
                          = competition_task.fn
                     THEN "sleep" ELSE "delete"
            /\ bgpc' = bgpc
    /\ UNCHANGED <<hotVars, bindVars, competition_task, liveCount, notified,
                   envVars, histVars>>

\* old_status = status; status = competition_get_status(); state = ...;
\* `continue` when disabled in both, else the state is chosen
Read2 ==
    /\ pc = "read2"
    /\ old_status' = status
    /\ status' = compStatus
    /\ IF BothDisabled(compStatus, status)
       THEN /\ state' = E_OPCONTROL_TASK
            /\ pc' = "steady_bg"
            /\ bgpc' = "take"
       ELSE /\ state' = ChooseState(compStatus, status)
            /\ pc' = "delete"
            /\ bgpc' = bgpc
    /\ UNCHANGED <<hotVars, bindVars, competition_task, liveCount, notified,
                   envVars, histVars>>

\* task_state = task_get_state(competition_task); if (...) task_delete(...)
DeleteOld ==
    /\ pc = "delete"
    /\ IF ShouldDelete(task_get_state(competition_task))
       THEN /\ competition_task' = [competition_task EXCEPT !.st = "DELETED"]
            /\ liveCount' = liveCount - 1
            /\ nDelete' = nDelete + 1
       ELSE UNCHANGED <<competition_task, liveCount, nDelete>>
    /\ pc' = "create"
    /\ UNCHANGED <<hotVars, bindVars, bgpc, status, old_status, state, notified,
                   envVars, ticks, services, nCreate>>

\* competition_task = task_create_static(task_fns[state], ...)
CreateMode ==
    /\ pc = "create"
    /\ competition_task' = NewTask(task_fns[state + 1])
    /\ liveCount' = liveCount + 1
    /\ nCreate' = nCreate + 1
    /\ pc' = "sleep"
    /\ UNCHANGED <<hotVars, bindVars, bgpc, status, old_status, state, notified,
                   envVars, ticks, services, nDelete>>

\* task_delay_until(&time, 2) returns at the next deadline
DelayUntil ==
    /\ pc = "sleep"
    /\ ticks < MaxTicks
    /\ ticks' = ticks + 1
    /\ pc' = "steady_bg"
    /\ bgpc' = "take"
    /\ UNCHANGED <<hotVars, bindVars, status, old_status, state, competition_task,
                   liveCount, notified, envVars, services, nCreate, nDelete>>

----------------------------------------------------------------------------
(* The mode task (user code) and the environment                           *)

\* the external competition status changes
StatusChange ==
    /\ pc \notin {"install", "ctor"}
    /\ \E v \in StatusValues \ {compStatus} : compStatus' = v
    /\ UNCHANGED <<hotVars, bindVars, daemonVars, mutexOwner, schedSuspended,
                   histVars>>

\* _initialize_task: user_initialize() has returned; task_notify(system_daemon_task)
InitNotify ==
    /\ ModeRuns
    /\ competition_task.fn = "_initialize_task"
    /\ ~competition_task.notifySent
    /\ mutexOwner # "mode"
    /\ notified' = TRUE
    /\ competition_task' = [competition_task EXCEPT !.notifySent = TRUE]
    /\ UNCHANGED <<hotVars, bindVars, pc, bgpc, status, old_status, state,
                   liveCount, envVars, histVars>>

\* the task's entry function returns: the task is gone
ModeReturn ==
    /\ ModeRuns
    /\ competition_task.fn = "_initialize_task" => competition_task.notifySent
    /\ mutexOwner # "mode"
    /\ competition_task' = [competition_task EXCEPT !.st = "DELETED"]
    /\ liveCount' = liveCount - 1
    /\ UNCHANGED <<hotVars, bindVars, pc, bgpc, status, old_status, state,
                   notified, envVars, histVars>>

\* user code blocks (delay, wait) or suspends itself
ModeBlock ==
    /\ ModeRuns
    /\ mutexOwner # "mode"
    /\ \E s \in {"BLOCKED", "SUSPENDED"} :
          competition_task' = [competition_task EXCEPT !.st = s]
    /\ UNCHANGED <<hotVars, bindVars, pc, bgpc, status, old_status, state,
                   liveCount, notified, envVars, histVars>>

\* the blocked or suspended mode task becomes ready again
ModeWake ==
    /\ competition_task.st \in {"BLOCKED", "SUSPENDED"}
    /\ ~schedSuspended
    /\ competition_task' = [competition_task EXCEPT !.st = "READY"]
    /\ UNCHANGED <<hotVars, bindVars, pc, bgpc, status, old_status, state,
                   liveCount, notified, envVars, histVars>>

\* claim_port: a driver call of the mode task takes the port mutex
ModeClaimPort ==
    /\ ModeRuns
    /\ mutexOwner = "none"
    /\ mutexOwner' = "mode"
    /\ UNCHANGED <<hotVars, bindVars, daemonVars, compStatus, schedSuspended,
                   histVars>>

\* return_port: the driver call gives the port mutex back
ModeReturnPort ==
    /\ ModeRuns
    /\ mutexOwner = "mode"
    /\ mutexOwner' = "none"
    /\ UNCHANGED <<hotVars, bindVars, daemonVars, compStatus, schedSuspended,
                   histVars>>

----------------------------------------------------------------------------
(* Specification of one boot                                               *)

Init ==
    /\ MAGIC_ADDR \in {<<MAGIC0, MAGIC1>>, <<MAGIC0, OtherWord>>}
    /\ HOT_TABLE = ZeroTable
    /\ syms = Layout(1, 1)
    /\ hotMem = [a \in 1..2 |-> 1]
    /\ callLog = <<>>
    /\ initSaw = <<>>
    /\ user_initialize = NULL
    /\ user_cpp_initialize = NULL
    /\ pc = "install"
    /\ bgpc = "none"
    /\ status = 0
    /\ old_status = 0
    /\ state = E_OPCONTROL_TASK
    /\ competition_task = NoTask
    /\ liveCount = 0
    /\ notified = FALSE
    /\ compStatus \in StatusValues
    /\ mutexOwner = "none"
    /\ schedSuspended = FALSE
    /\ ticks = 0
    /\ services = 0
    /\ nCreate = 0
    /\ nDelete = 0

Next ==
    \/ BootInstall
    \/ SetupUserFunctions
    \/ DaemonStart
    \/ CreateInitTask
    \/ BootTimeout
    \/ BootNotified
    \/ BgTake
    \/ BgVex
    \/ BgVdmlGive
    \/ Read1
    \/ Read2
    \/ DeleteOld
    \/ CreateMode
    \/ DelayUntil
    \/ StatusChange
    \/ InitNotify
    \/ ModeReturn
    \/ ModeBlock
    \/ ModeWake
    \/ ModeClaimPort
    \/ ModeReturnPort

Spec == Init /\ [][Next]_vars

\* Scheduling: the daemon has the highest priority among the tasks of the
\* model, so each of its steps is taken once it can be; the timed waits end
\* when their time has passed; a driver call of the mode task gives the port
\* mutex back after a finite time.
Fairness ==
    /\ WF_vars(BootInstall)
    /\ WF_vars(SetupUserFunctions)
    /\ WF_vars(DaemonStart)
    /\ WF_vars(CreateInitTask)
    /\ WF_vars(BootTimeout)
    /\ WF_vars(BootNotified)
    /\ WF_vars(BgTake)
    /\ WF_vars(BgVex)
    /\ WF_vars(BgVdmlGive)
    /\ WF_vars(Read1)
    /\ WF_vars(Read2)
    /\ WF_vars(DeleteOld)
    /\ WF_vars(CreateMode)
    /\ WF_vars(DelayUntil)
    /\ WF_vars(ModeReturnPort)

\* the boot with a compatible hot image (the table does not bear on progress)
InitLive == Init /\ MAGIC_ADDR = <<MAGIC0, MAGIC1>>

SpecLive == InitLive /\ [][Next]_vars /\ Fairness

----------------------------------------------------------------------------
(* Specification of repeated install attempts                              *)

\* invoke_install_hot_table() on the current sentinel and memory
HotInstall ==
    /\ InstallCall
    /\ UNCHANGED <<bindVars, daemonVars, envVars, histVars>>

\* another build of the hot image is uploaded: the sentinel and the content
\* of its memory change (every layout is an initial state)
HotReload ==
    /\ MAGIC_ADDR' \in Words \X Words
    /\ hotMem' \in MemOf(Len(hotMem))
    /\ callLog' = <<"reload">>
    /\ initSaw' = <<>>
    /\ UNCHANGED <<HOT_TABLE, syms, bindVars, daemonVars, envVars, histVars>>

InitHot ==
    /\ MAGIC_ADDR \in Words \X Words
    /\ HOT_TABLE = ZeroTable
    /\ \E s \in 0..MaxRegionLen, b \in 0..MaxRegionLen :
          /\ syms = Layout(s, b)
          /\ hotMem \in MemOf(s + b)
    /\ callLog = <<"reload">>
    /\ initSaw = <<>>
    /\ user_initialize = NULL
    /\ user_cpp_initialize = NULL
    /\ pc = "install"
    /\ bgpc = "none"
    /\ status = 0
    /\ old_status = 0
    /\ state = E_OPCONTROL_TASK
    /\ competition_task = NoTask
    /\ liveCount = 0
    /\ notified = FALSE
    /\ compStatus = 0
    /\ mutexOwner = "none"
    /\ schedSuspended = FALSE
    /\ ticks = 0
    /\ services = 0
    /\ nCreate = 0
    /\ nDelete = 0

NextHot ==
    \/ HotInstall
    \/ HotReload

SpecHot == InitHot /\ [][NextHot]_vars

----------------------------------------------------------------------------
(* Reference definitions used by the properties                            *)

\* bit `bit` (a power of two) is set in x
Has(x, bit) == (x \div bit) % 2 = 1

D == COMPETITION_DISABLED
A == COMPETITION_AUTONOMOUS
C == COMPETITION_CONNECTED

\* the priority function of the specification
RefState(old, new) ==
    IF (Has(old, C) # Has(new, C)) /\ Has(new, D) /\ Has(new, C) THEN "COMP_INIT"
    ELSE IF Has(new, D) THEN "DISABLED"
    ELSE IF Has(new, A) THEN "AUTONOMOUS"
    ELSE "OPCONTROL"

RefEnum(name) ==
    CASE name = "COMP_INIT"  -> E_COMP_INIT_TASK
      [] name = "DISABLED"   -> E_DISABLED_TASK
      [] name = "AUTONOMOUS" -> E_AUTON_TASK
      [] name = "OPCONTROL"  -> E_OPCONTROL_TASK

RefTask(name) ==
    CASE name = "COMP_INIT"  -> "_competition_initialize_task"
      [] name = "DISABLED"   -> "_disabled_task"
      [] name = "AUTONOMOUS" -> "_autonomous_task"
      [] name = "OPCONTROL"  -> "_opcontrol_task"

RefCallback(name) ==
    CASE name = "COMP_INIT"  -> "competition_initialize"
      [] name = "DISABLED"   -> "disabled"
      [] name = "AUTONOMOUS" -> "autonomous"
      [] name = "OPCONTROL"  -> "opcontrol"

\* the user callback a task entry function stands for
CallbackOf(fn) ==
    CASE fn = "_initialize_task"             -> "initialize"
      [] fn = "_competition_initialize_task" -> "competition_initialize"
      [] fn = "_autonomous_task"             -> "autonomous"
      [] fn = "_opcontrol_task"              -> "opcontrol"
      [] fn = "_disabled_task"               -> "disabled"

\* the resolution rule of the specification
RefResolve(tbl, F) ==
    IF tbl.functions[F] # NULL THEN tbl.functions[F] ELSE ColdSym(F)

RefMatch(magic) == magic = <<MAGIC0, MAGIC1>>

InBootstrap == pc \in {"boot_wait", "boot_bg"}
InTransition == pc \in {"delete", "create"}

----------------------------------------------------------------------------
(* Properties                                                              *)

\* C1: the competition slot holds zero or one live task in every state, and
\* the new task is created only when no live task is left (the old one was
\* deleted or had already gone).
C1_AtMostOneLiveModeTask ==
    /\ liveCount \in {0, 1}
    /\ pc = "create" => liveCount = 0
    /\ liveCount = 1 <=> IsLive(competition_task)

C1_Witness ==
    /\ pc = "sleep"
    /\ nDelete >= 2
    /\ nCreate >= 3
    /\ liveCount = 1

\* C2: when the snapshot of the previous tick equals the status the daemon
\* uses for this tick's decision, no transition takes place (nothing is
\* deleted, nothing is created).
C2_EqualStatusNoTransition ==
    InTransition => old_status # status

\* C3: when DISABLED is set in the previous snapshot and in the new status,
\* the daemon step that takes the new status deletes nothing, creates nothing
\* and stores the new status as the snapshot.
C3_DisabledInBothSuppressed ==
    [][(pc = "read2" /\ pc' # "read2" /\ Has(status, D) /\ Has(compStatus, D))
         => /\ ~InTransition'
            /\ competition_task' = competition_task
            /\ liveCount' = liveCount
            /\ nCreate' = nCreate
            /\ nDelete' = nDelete
            /\ status' = compStatus]_vars

C3_Witness ==
    /\ pc = "steady_bg"
    /\ services = ticks
    /\ old_status = D
    /\ status = D + A
    /\ IsLive(competition_task)

\* C4: for old # new not suppressed, the chosen state is the one of the
\* priority function, and the task created runs that state's callback.
C4_StateMatchesPriority ==
    /\ (InTransition /\ old_status # status)
         => state = RefEnum(RefState(old_status, status))
    /\ (pc = "sleep" /\ old_status # status
          /\ ~(Has(old_status, D) /\ Has(status, D)))
         => /\ competition_task.fn = RefTask(RefState(old_status, status))
            /\ Invokes(competition_task.fn)[2]
                 = RefCallback(RefState(old_status, status))

C4_Witness ==
    /\ pc = "sleep"
    /\ old_status = A
    /\ status = 0
    /\ competition_task.fn = "_opcontrol_task"
    /\ nCreate = 3

\* C5: in steady state the number of completed service steps equals the
\* number of wake-ups: one service step per tick.
C5_ServiceOncePerTick ==
    /\ pc \in {"read1", "read2", "delete", "create", "sleep"} => services = ticks
    /\ pc = "steady_bg" => services + 1 = ticks

\* C6: during bootstrap the slot keeps the initialize task, nothing is deleted
\* or created, the status is not read; a timed-out wait leads to the service
\* step and back to the wait; the loop is left only for the steady-state loop
\* and only on the notification sent by the initialize task.
C6_BootstrapNoTransition ==
    /\ [](InBootstrap =>
            /\ nCreate = 1
            /\ nDelete = 0
            /\ status = InitialStatus
            /\ competition_task.fn = "_initialize_task"
            /\ ticks = 0
            /\ services = 0)
    /\ [][/\ (pc = "boot_wait" /\ pc' # "boot_wait")
               => IF notified
                  THEN competition_task.notifySent /\ pc' = "steady_bg"
                  ELSE pc' = "boot_bg"
          /\ (pc = "boot_bg" /\ pc' # "boot_bg") => pc' = "boot_wait"
          /\ (~InBootstrap /\ InBootstrap') => pc = "create_init"]_vars

C6_Witness ==
    /\ pc = "boot_bg"
    /\ bgpc = "vdml"
    /\ competition_task.st = "BLOCKED"
    /\ ~competition_task.notifySent

\* C7: an install attempt with a sentinel other than (MAGIC0, MAGIC1) leaves
\* the whole table null and performs no install step: the memory is not
\* touched and the initializers are not run.
C7_MismatchZeroesTable ==
    [][(callLog' # <<"reload">> /\ ~RefMatch(MAGIC_ADDR))
         => /\ HOT_TABLE' = ZeroTable
            /\ hotMem' = hotMem
            /\ callLog' = <<>>
            /\ initSaw' = <<>>]_vars

C7_Witness ==
    /\ callLog = <<>>
    /\ MAGIC_ADDR = <<MAGIC0, NearWord>>
    /\ HOT_TABLE = ZeroTable
    /\ \E a \in DOMAIN hotMem : hotMem[a] = 1

\* C8: after an install attempt with the matching sentinel every callback slot
\* holds the hot binary's address of that callback and both metadata pointers
\* hold the hot binary's constants; in every state the table is either fully
\* populated or all null.
C8_MatchPopulatesTable ==
    /\ (callLog # <<"reload">> /\ RefMatch(MAGIC_ADDR))
         => /\ \A F \in FuncList : HOT_TABLE.functions[F] = HotSym(F)
            /\ HOT_TABLE.compile_timestamp = HotSym("_PROS_COMPILE_TIMESTAMP")
            /\ HOT_TABLE.compile_directory = HotSym("_PROS_COMPILE_DIRECTORY")
    /\ \/ HOT_TABLE = ZeroTable
       \/ /\ \A F \in FuncList : HOT_TABLE.functions[F] # NULL
          /\ HOT_TABLE.compile_timestamp # NULL
          /\ HOT_TABLE.compile_directory # NULL

C8_Witness ==
    /\ callLog = InstallSteps
    /\ RefMatch(MAGIC_ADDR)
    /\ HOT_TABLE.functions["autonomous"] = HotSym("autonomous")

\* C9: on a compatible install both uninitialized-data regions are all zero
\* when the static initializers run.
C9_RegionsZeroedBeforeInit ==
    callLog = InstallSteps => \A a \in DOMAIN initSaw : initSaw[a] = 0

\* C10: the function a live mode task invokes is the table slot of its
\* callback when that slot is non-null and the cold default otherwise, and is
\* never null.
C10_ModeTaskInvokesResolved ==
    IsLive(competition_task)
      => /\ Invokes(competition_task.fn)
              = RefResolve(HOT_TABLE, CallbackOf(competition_task.fn))
         /\ Invokes(competition_task.fn) # NULL


\* C11: vexBackgroundProcessing runs only with the scheduler suspended and the
\* port mutexes held by the daemon, so that no mode task can run;
\* vdml_background_processing runs with the mutexes held and the scheduler
\* running; once the step has returned the scheduler runs and the daemon
\* holds no port mutex.
C11_ServiceStepBracketing ==
    /\ (InBg /\ bgpc = "vex")
         => schedSuspended /\ mutexOwner = "daemon" /\ ~ModeRuns
    /\ (InBg /\ bgpc = "vdml") => ~schedSuspended /\ mutexOwner = "daemon"
    /\ (InBg /\ bgpc = "take") => ~schedSuspended /\ mutexOwner # "daemon"
    /\ ~InBg => bgpc = "none" /\ ~schedSuspended /\ mutexOwner # "daemon"

C11_Witness ==
    /\ pc = "steady_bg"
    /\ bgpc = "vex"
    /\ competition_task.fn = "_autonomous_task"
    /\ competition_task.st = "READY"


\* C12: every steady-state iteration ends by blocking until the next 2 ms
\* deadline: the top of the steady-state loop is reached only from that
\* deadline-paced sleep (or, the first time, from the bootstrap wait).
C12_IterationEndsAtDeadline ==
    [][(pc' = "steady_bg" /\ pc # "steady_bg") => pc \in {"sleep", "boot_wait"}]_vars


\* C13: in every steady-state iteration the service step has returned (port
\* mutexes given back, scheduler resumed) before the status is read and before
\* a mode task is deleted or created: the status check is entered only by the
\* last step of the service step, and the delete and the create only follow
\* that status check.
C13_ServiceBeforeTransition ==
    /\ [](pc \in {"read1", "read2", "delete", "create"}
            => /\ bgpc = "none"
               /\ mutexOwner # "daemon"
               /\ ~schedSuspended
               /\ services >= 1)
    /\ [][/\ (pc' = "read1" /\ pc # "read1")
               => /\ pc = "steady_bg" /\ bgpc = "vdml"
                  /\ services' = services + 1
                  /\ mutexOwner' = "none"
          /\ (pc' = "read2" /\ pc # "read2") => pc = "read1"
          /\ (pc' = "delete" /\ pc # "delete") => pc = "read2"
          /\ (pc' = "create" /\ pc # "create") => pc = "delete"
          /\ (nDelete' # nDelete) => pc = "delete"
          /\ (nCreate' # nCreate) => pc \in {"create", "create_init"}]_vars

C13_Witness ==
    /\ pc = "delete"
    /\ services = 2
    /\ ticks = 2
    /\ IsLive(competition_task)


\* the service step is being executed (its vendor call is done)
InService == InBg /\ bgpc = "vdml"

\* C14: from every state (within the explored number of ticks) the daemon
\* reaches the service step again: it has no terminal state and is never
\* blocked for ever, whatever tasks were deleted and created.
C14_DaemonKeepsServicing ==
    (ticks < MaxTicks /\ services < MaxTicks /\ ~InService) ~> InService

C14_Witness ==
    /\ pc = "steady_bg"
    /\ bgpc = "take"
    /\ mutexOwner = "mode"
    /\ nDelete >= 1


\* C15: at a transition task_delete is called exactly when the slot's task is
\* READY, BLOCKED or SUSPENDED; a deleted or invalid task is not deleted
\* again; either way the replacement is created next, before the daemon
\* sleeps.
C15_DeleteOnlyLiveTask ==
    [][/\ (pc = "delete" /\ pc' # "delete")
            => /\ IF competition_task.st \in {"READY", "BLOCKED", "SUSPENDED"}
                  THEN nDelete' = nDelete + 1 /\ competition_task'.st = "DELETED"
                  ELSE nDelete' = nDelete /\ competition_task' = competition_task
               /\ pc' = "create"
               /\ liveCount' = 0
       /\ (pc = "create" /\ pc' # "create")
            => /\ nCreate' = nCreate + 1
               /\ competition_task'.st = "READY"
               /\ pc' = "sleep"]_vars

C15_Witness ==
    /\ pc = "sleep"
    /\ nCreate = 3
    /\ nDelete = 1
    /\ liveCount = 1


\* C16: a status change the daemon has seen and that is not suppressed by the
\* disabled-in-both rule leads to one switch in that iteration: the live old
\* task is deleted, one new task is created in the slot and the daemon then
\* sleeps, also when the new task runs the same function as the old one.
C16_ChangeImpliesOneSwitch ==
    [][/\ (pc = "read2" /\ pc' # "read2"
             /\ ~(Has(status, D) /\ Has(compStatus, D)))
            => pc' = "delete"
       /\ (pc = "delete" /\ pc' # "delete")
            => pc' = "create" /\ nCreate' = nCreate /\ liveCount' = 0
       /\ (pc = "create" /\ pc' # "create")
            => /\ pc' = "sleep"
               /\ nCreate' = nCreate + 1
               /\ liveCount' = 1
               /\ competition_task' = NewTask(RefTask(RefState(old_status, status)))
       /\ (pc \in {"steady_bg", "read1", "read2", "delete", "sleep"})
            => nCreate' = nCreate]_vars

C16_Witness ==
    /\ pc = "sleep"
    /\ old_status = 0
    /\ status = C
    /\ competition_task.fn = "_opcontrol_task"
    /\ nCreate = 3
    /\ nDelete = 2


\* C17: a competition-initialize task is created only in an iteration where
\* the CONNECTED bit differs between the previous snapshot and the new status,
\* the new status has DISABLED and CONNECTED, and the previous snapshot had no
\* DISABLED; with old = CONNECTED and new = DISABLED|CONNECTED the disabled
\* task is created.
C17_CompInitOnlyOnConnectToggle ==
    [][(nCreate' # nCreate /\ pc = "create")
         => /\ (competition_task'.fn = "_competition_initialize_task")
                 => /\ Has(old_status, C) # Has(status, C)
                    /\ Has(status, D) /\ Has(status, C)
                    /\ ~Has(old_status, D)
            /\ (old_status = C /\ status = D + C)
                 => competition_task'.fn = "_disabled_task"]_vars

C17_Witness ==
    /\ pc = "sleep"
    /\ old_status = C
    /\ status = D + C
    /\ competition_task.fn = "_disabled_task"
    /\ nCreate = 3


\* the task the first status calls for, as the claim lists it
FirstTask(s) ==
    IF Has(s, D) /\ Has(s, C) THEN "_competition_initialize_task"
    ELSE IF Has(s, D) THEN "_disabled_task"
    ELSE IF Has(s, A) THEN "_autonomous_task"
    ELSE "_opcontrol_task"

\* C18: the first steady-state iteration (only the initialize task has been
\* created so far) always sees a change, is never suppressed, and creates the
\* mode task of the status it read; the daemon never reaches its sleep without
\* having created a mode task.
C18_FirstTickAlwaysSwitches ==
    /\ [](pc = "sleep" => nCreate >= 2)
    /\ [](pc \in {"steady_bg", "read1", "read2"} /\ nCreate = 1
            => status = 256 /\ ~Has(status, D) /\ ~Has(status, A) /\ ~Has(status, C))
    /\ [][/\ (nCreate = 1 /\ pc = "read1" /\ pc' # "read1") => pc' = "read2"
          /\ (nCreate = 1 /\ pc = "read2" /\ pc' # "read2") => pc' = "delete"
          /\ (nCreate = 1 /\ pc = "create" /\ pc' # "create")
               => /\ nCreate' = 2
                  /\ competition_task'.fn = FirstTask(status)]_vars

C18_Witness ==
    /\ pc = "sleep"
    /\ ticks = 1
    /\ nCreate = 2
    /\ old_status = 256
    /\ status = D + C
    /\ competition_task.fn = "_competition_initialize_task"


\* C19: the port mutex is free when the daemon is about to delete the mode
\* task, and a port mutex owned by the mode task always has a live owner:
\* no deletion leaves the mutex with a deleted owner.
C19_NoMutexHeldAtDelete ==
    /\ pc \in {"read1", "read2", "delete", "create"} => mutexOwner = "none"
    /\ mutexOwner = "mode" => competition_task.st = "READY"

C19_Witness ==
    /\ pc = "delete"
    /\ mutexOwner = "none"
    /\ competition_task.fn = "_initialize_task"
    /\ competition_task.st = "READY"


\* the task functions that fit a status snapshot
TasksFor(s) ==
    IF Has(s, D) THEN {"_disabled_task", "_competition_initialize_task"}
    ELSE IF Has(s, A) THEN {"_autonomous_task"}
    ELSE {"_opcontrol_task"}

\* C20: whenever the daemon is at its steady-state sleep, the function of the
\* task created last fits the status snapshot: disabled or competition
\* initialize when the snapshot has DISABLED, else autonomous when it has
\* AUTONOMOUS, else operator control.
C20_TaskFitsSnapshot ==
    pc = "sleep" => competition_task.fn \in TasksFor(status)

C20_Witness ==
    /\ pc = "sleep"
    /\ old_status = D
    /\ status = D + A
    /\ competition_task.fn = "_disabled_task"
    /\ services > ticks

====
